---- MODULE Spec2Model ----
(***************************************************************************)
(* The logstash callback plugin (src/logstash.py): one CallbackModule      *)
(* object, configured once by set_options and then driven by the host's    *)
(* lifecycle callbacks, one call at a time.                                *)
(*                                                                         *)
(* A Python str is a sequence of chunks.  The characters that matter to    *)
(* repr, json.dumps, str.strip and str.replace (newline, space, backslash, *)
(* the two quotes) are always chunks of their own; a chunk such as "out"   *)
(* stands for a run of ordinary characters.  A dict is a function whose    *)
(* DOMAIN is the set of keys present.                                      *)
(***************************************************************************)
EXTENDS Integers, Sequences, FiniteSets, TLC

\* uuid.uuid4() draws from NumSessions identifiers
NumSessions == 2
\* a payload's rc, when present, is in 0..MaxRc
MaxRc == 2
\* hosts of the inventory are web1..webNumHosts
NumHosts == 2

VARIABLES
    pc,         \* "constructed": after __init__; "returned": a call has just returned or
                \* raised; "idle": the host is between two callbacks
    env,        \* what the environment answered to set_options (login, option, connect)
    data,       \* self.data (NoData while the attribute is not set)
    created,    \* self.data as set_options created it (NoData while not created)
    connected,  \* self.connected: "unset" (no such attribute), "True", "False"
    sock,       \* self.sock: "unset", "created" (not connected), "connected"
    op,         \* the operation called last
    file,       \* playbook._file_name of the last v2_playbook_on_start (NoFile if none)
    result,     \* the result object of the last v2_runner_on_* call (NoData if none)
    collected,  \* what collect_output returned in the last call (NoData if it did not)
    msg,        \* the record the last call passed to send_output (NoData if none)
    wrote,      \* socket writes of the last call: "none", "ok", "sendall" or "send" (the write that failed)
    written,    \* the bytes the last call put on the socket
    torn,       \* some failed write left part of a record on the stream
    raised,     \* the exception that escaped the last call ("none" if it returned)
    displayed   \* what the last call showed through display: "none", "error", "banner", "session"

vars == <<pc, env, data, created, connected, sock, op, file, result, collected,
          msg, wrote, written, torn, raised, displayed>>

----------------------------------------------------------------------------
(* Python dict and str primitives *)

NoData == [k \in {} |-> TRUE]
NoFile == <<>>

Get(d, k, default) == IF k \in DOMAIN d THEN d[k] ELSE default
Put(d, k, v) == [y \in (DOMAIN d) \cup {k} |-> IF y = k THEN v ELSE d[y]]
Pop(d, k) == [y \in (DOMAIN d) \ {k} |-> d[y]]

Whitespace == {" ", "\n"}

RECURSIVE LStrip(_)
LStrip(s) == IF s # <<>> /\ Head(s) \in Whitespace THEN LStrip(Tail(s)) ELSE s

RECURSIVE RStrip(_)
RStrip(s) ==
    IF s # <<>> /\ s[Len(s)] \in Whitespace THEN RStrip(SubSeq(s, 1, Len(s) - 1)) ELSE s

Strip(s) == RStrip(LStrip(s))

RECURSIVE Join(_, _)
Join(sep, parts) ==
    IF parts = <<>> THEN <<>>
    ELSE IF Len(parts) = 1 THEN parts[1]
    ELSE parts[1] \o sep \o Join(sep, Tail(parts))

RECURSIVE Escape(_, _)
Escape(s, special) ==
    IF s = <<>> THEN <<>>
    ELSE (IF Head(s) = "\n" THEN <<"\\", "n">>
          ELSE IF Head(s) \in special THEN <<"\\", Head(s)>>
          ELSE <<Head(s)>>) \o Escape(Tail(s), special)

\* repr() of a str without quotes in it
Repr(s) == <<"'">> \o Escape(s, {"\\", "'"}) \o <<"'">>

Replace(s, old, new) == [i \in 1..Len(s) |-> IF s[i] = old THEN new ELSE s[i]]

RECURSIVE LastSlash(_)
LastSlash(p) ==
    IF p = <<>> THEN 0 ELSE IF p[Len(p)] = "/" THEN Len(p) ELSE LastSlash(SubSeq(p, 1, Len(p) - 1))

Basename(p) == SubSeq(p, LastSlash(p) + 1, Len(p))

----------------------------------------------------------------------------
(* json.dumps(msg, cls=AnsibleJSONEncoder) *)

JsonStr(s) == <<"\"">> \o Escape(s, {"\\", "\""}) \o <<"\"">>

HostName(h) == <<"web", ToString(h)>>

RECURSIVE JsonSummary(_, _)
JsonSummary(summary, h) ==
    IF h > NumHosts THEN <<>>
    ELSE IF h \notin DOMAIN summary THEN JsonSummary(summary, h + 1)
    ELSE (IF \E g \in DOMAIN summary : g < h THEN <<",", " ">> ELSE <<>>)
         \o JsonStr(HostName(h)) \o <<":", " ", "{", "\"ok\"", ":", " ", ToString(summary[h].ok), "}">>
         \o JsonSummary(summary, h + 1)

JsonValue(k, v) ==
    IF k = "rc" THEN <<ToString(v)>>
    ELSE IF k = "stdout" THEN <<"{">> \o JsonSummary(v, 1) \o <<"}">>
    ELSE JsonStr(v)

\* the order in which the handlers insert the keys
KeyOrder == <<"session", "user", "playbook", "task", "host", "rc", "log", "status", "stdout">>

RECURSIVE JsonItems(_, _)
JsonItems(d, i) ==
    IF i > Len(KeyOrder) THEN <<>>
    ELSE IF KeyOrder[i] \notin DOMAIN d THEN JsonItems(d, i + 1)
    ELSE (IF \E j \in 1..(i - 1) : KeyOrder[j] \in DOMAIN d THEN <<",", " ">> ELSE <<>>)
         \o JsonStr(<<KeyOrder[i]>>) \o <<":", " ">> \o JsonValue(KeyOrder[i], d[KeyOrder[i]])
         \o JsonItems(d, i + 1)

Dumps(d) == <<"{">> \o JsonItems(d, 1) \o <<"}">>

----------------------------------------------------------------------------
(* The inputs *)

Uuid(u) == <<"uuid", ToString(u)>>
User == <<"root">>

Logins == {"ok", "OSError"}
Options == {"ok", "KeyError", "ValueError"}
Connects == {"ok", "ConnectionRefusedError", "OSError"}
NoEnv == [login |-> "unset", option |-> "unset", connect |-> "unset"]

FileNames == {<<"site.yml">>, <<"plays", "/", "db.yml">>}
Hosts == 1..NumHosts
TaskNames == {<<"install", " ", "package">>}

\* the text fields of a module's payload
TextParts ==
    { NoData,
      [msg |-> <<"boom">>],
      [stdout |-> <<"out">>, stderr |-> <<"err">>],
      [msg |-> <<"a", "\n", "b">>, stdout |-> <<"o", "\n">>, module_stderr |-> <<" ", "trace", "\n">>],
      [msg |-> <<"m">>, stdout |-> <<"so">>, stderr |-> <<"se">>,
       module_stdout |-> <<"mo">>, module_stderr |-> <<"me">>] }

Payloads == TextParts \cup {Put(t, "rc", r) : t \in TextParts, r \in 0..MaxRc}

FailedModules == {NoData, [ping |-> NoData]} \cup {[setup |-> p] : p \in Payloads}

\* the top-level payload of a result that reports failed modules
FailedTops ==
    { [msg |-> <<"failed", " ", "modules">>],
      [rc |-> 1, msg |-> <<"top">>, stdout |-> <<"to">>, stderr |-> <<"te">>,
       module_stdout |-> <<"tmo">>, module_stderr |-> <<"tme">>] }

ResultDicts == Payloads \cup {Put(p, "failed_modules", f) : p \in FailedTops, f \in FailedModules}

Results == {[task |-> t, host |-> h, result |-> r] : t \in TaskNames, h \in Hosts, r \in ResultDicts}

\* stats.processed with what stats.summarize(h) reports
Stats == UNION {[S -> [ok : 0..1]] : S \in SUBSET Hosts}

----------------------------------------------------------------------------
Init ==
    /\ pc = "constructed"
    /\ env = NoEnv
    /\ data = NoData
    /\ created = NoData
    /\ connected = "unset"
    /\ sock = "unset"
    /\ op = "__init__"
    /\ file = NoFile
    /\ result = NoData
    /\ collected = NoData
    /\ msg = NoData
    /\ wrote = "none"
    /\ written = <<>>
    /\ torn = FALSE
    /\ raised = "none"
    /\ displayed = "none"

\* a call that touches neither the socket nor send_output
NoSend ==
    /\ msg' = NoData
    /\ wrote' = "none"
    /\ written' = <<>>
    /\ UNCHANGED <<connected, sock, torn>>

\* self.data as built by set_options
SessionData(u) == [session |-> Uuid(u), user |-> User]

set_options ==
    /\ pc = "constructed"
    /\ pc' = "returned"
    /\ op' = "set_options"
    /\ \E login \in Logins, option \in Options, connect \in Connects, u \in 1..NumSessions :
        /\ env' = [login |-> login,
                   option |-> IF login = "ok" THEN option ELSE "unset",
                   connect |-> IF login = "ok" /\ option = "ok" THEN connect ELSE "unset"]
        /\ IF login # "ok"
           THEN \* os.getlogin() raises before self.data is assigned
                /\ raised' = "OSError"
                /\ displayed' = "none"
                /\ UNCHANGED <<data, created, connected, sock>>
           ELSE /\ data' = SessionData(u)
                /\ created' = SessionData(u)
                /\ CASE option = "KeyError" ->
                            /\ displayed' = "error"
                            /\ raised' = "none"
                            /\ UNCHANGED <<connected, sock>>
                     [] option = "ValueError" ->
                            /\ displayed' = "none"
                            /\ raised' = "ValueError"
                            /\ UNCHANGED <<connected, sock>>
                     [] connect = "ok" ->
                            /\ sock' = "connected"
                            /\ connected' = "True"
                            /\ displayed' = "banner"
                            /\ raised' = "none"
                     [] connect = "ConnectionRefusedError" ->
                            /\ sock' = "created"
                            /\ connected' = "False"
                            /\ displayed' = "error"
                            /\ raised' = "none"
                     [] OTHER ->
                            /\ sock' = "created"
                            /\ raised' = "OSError"
                            /\ displayed' = "none"
                            /\ UNCHANGED connected
    /\ msg' = NoData
    /\ wrote' = "none"
    /\ written' = <<>>
    /\ UNCHANGED <<file, result, collected, torn>>

----------------------------------------------------------------------------
(* collect_output *)

\* failed_modules is present and not empty, and has no 'setup' entry: line 135 raises KeyError
CollectFails(res) ==
    LET failed_modules == Get(res.result, "failed_modules", NoData)
    IN  DOMAIN failed_modules # {} /\ "setup" \notin DOMAIN failed_modules

\* mutant: the log fields always come from the top-level result
LogSourceTopLevel(res) == res.result

LogSource(res) ==
    LET failed_modules == Get(res.result, "failed_modules", NoData)
    IN  IF DOMAIN failed_modules # {} THEN failed_modules["setup"] ELSE res.result

\* mutant: a missing rc is reported as 1
RcOfDefaultOne(log) == Get(log, "rc", 1)

RcOf(log) == Get(log, "rc", 0)

LogText(log) ==
    Strip(Join(<<"\n">>, << Repr(Get(log, "msg", <<>>)),
                           Get(log, "stdout", <<>>),
                           Get(log, "stderr", <<>>),
                           Get(log, "module_stdout", <<>>),
                           Get(log, "module_stderr", <<>>) >>))

\* lines 130 to 151, on the dict the record is built in
Extract(base, res) ==
    LET tagged == Put(Put(base, "task", res.task), "host", HostName(res.host))
        log == LogSource(res)
        filled == Put(Put(tagged, "rc", RcOf(log)), "log", LogText(log))
    IN  Pop(Pop(Pop(Pop(Pop(filled, "stdout"), "stderr"), "module_stdout"), "module_stderr"), "msg")

\* mutant: the record is built on a newly generated session context
collect_output_new_session(d, res) == Extract([session |-> Uuid(res.host), user |-> User], res)

\* the record is built on self.data.copy()
collect_output(d, res) == Extract(d, res)

\* mutant: the record is built in self.data itself (no copy)
data_after_collect_aliased(d, res) == Extract(d, res)

\* self.data after collect_output: every write of collect_output goes to the copy
data_after_collect(d, res) == d

----------------------------------------------------------------------------
(* send_output *)

\* mutant: the arguments of str.replace are swapped
EncodedSwapped(m) == Replace(Dumps(m), " ", "\n")

\* the text handed to sock.sendall (utf-8 encoding of the ASCII text json.dumps returns)
Encoded(m) == Replace(Dumps(m), "\n", " ")

\* what sendall may have put on the socket when it raises
Partial(text) == {<<>>, SubSeq(text, 1, Len(text) \div 2)}

\* mutant: a failed write is swallowed and marks the adapter disconnected
send_output_disconnecting(m) ==
    /\ msg' = m
    /\ UNCHANGED sock
    /\ IF connected = "unset"
       THEN /\ raised' = "AttributeError"
            /\ wrote' = "none"
            /\ written' = <<>>
            /\ UNCHANGED <<torn, connected>>
       ELSE IF connected = "False"
       THEN /\ raised' = "none"
            /\ wrote' = "none"
            /\ written' = <<>>
            /\ UNCHANGED <<torn, connected>>
       ELSE \/ /\ wrote' = "ok"
               /\ written' = Encoded(m) \o <<"\n">>
               /\ raised' = "none"
               /\ UNCHANGED <<torn, connected>>
            \/ /\ wrote' = "sendall"
               /\ written' \in Partial(Encoded(m))
               /\ raised' = "none"
               /\ connected' = "False"
               /\ torn' = (torn \/ written' # <<>>)
            \/ /\ wrote' = "send"
               /\ written' = Encoded(m)
               /\ raised' = "none"
               /\ connected' = "False"
               /\ torn' = TRUE

send_output(m) ==
    /\ msg' = m
    /\ UNCHANGED <<connected, sock>>
    /\ IF connected = "unset"
       THEN \* self.connected: AttributeError
            /\ raised' = "AttributeError"
            /\ wrote' = "none"
            /\ written' = <<>>
            /\ UNCHANGED torn
       ELSE IF connected = "False"
       THEN /\ raised' = "none"
            /\ wrote' = "none"
            /\ written' = <<>>
            /\ UNCHANGED torn
       ELSE \/ /\ wrote' = "ok"
               /\ written' = Encoded(m) \o <<"\n">>
               /\ raised' = "none"
               /\ UNCHANGED torn
            \/ /\ wrote' = "sendall"
               /\ written' \in Partial(Encoded(m))
               /\ raised' = "OSError"
               /\ torn' = (torn \/ written' # <<>>)
            \/ /\ wrote' = "send"
               /\ written' = Encoded(m)
               /\ raised' = "OSError"
               /\ torn' = TRUE

\* self.data does not exist: the handler raises AttributeError at its first use
NoSessionData ==
    /\ raised' = "AttributeError"
    /\ NoSend
    /\ UNCHANGED data

----------------------------------------------------------------------------
(* The lifecycle handlers *)

\* mutant: the playbook name is not attached to self.data
StartContextDetached(d, f) == d

\* self.data after line 162
StartContext(d, f) == Put(d, "playbook", Basename(f))

StartRecord(d) == Put(d, "task", <<"Playbook", " ", "start">>)

v2_playbook_on_start ==
    /\ pc = "idle"
    /\ pc' = "returned"
    /\ op' = "v2_playbook_on_start"
    /\ \E f \in FileNames :
        /\ file' = f
        /\ IF data = NoData
           THEN NoSessionData
           ELSE /\ data' = StartContext(data, f)
                /\ send_output(StartRecord(data'))
    /\ result' = NoData
    /\ collected' = NoData
    /\ displayed' = "none"
    /\ UNCHANGED <<env, created>>

StatsRecord(d, stats) ==
    LET summary == [h \in DOMAIN stats |-> stats[h]]
    IN  Put(Put(d, "task", <<"Playbook", " ", "end">>), "stdout", summary)

v2_playbook_on_stats ==
    /\ pc = "idle"
    /\ pc' = "returned"
    /\ op' = "v2_playbook_on_stats"
    /\ \E stats \in Stats :
        IF data = NoData
        THEN NoSessionData
        ELSE /\ send_output(StatsRecord(data, stats))
             /\ UNCHANGED data
    /\ displayed' = IF raised' = "none" THEN "session" ELSE "none"
    /\ result' = NoData
    /\ collected' = NoData
    /\ UNCHANGED <<env, created, file>>

FailedRecord(d, res) == Put(collect_output(d, res), "status", <<"failed">>)

OkRecord(d, res) == Put(collect_output(d, res), "status", <<"success">>)

\* mutant: the rc of the result is kept
UnreachableRecordKeepsRc(d, res) == Put(collect_output(d, res), "status", <<"unreachable">>)

UnreachableRecord(d, res) ==
    Put(Put(collect_output(d, res), "status", <<"unreachable">>), "rc", -1)

\* a v2_runner_on_* handler called with res; rec is the record it sends
RunnerEvent(name, res, rec) ==
    /\ pc = "idle"
    /\ pc' = "returned"
    /\ op' = name
    /\ result' = res
    /\ IF data = NoData
       THEN /\ NoSessionData
            /\ collected' = NoData
       ELSE IF CollectFails(res)
       THEN /\ raised' = "KeyError"
            /\ NoSend
            /\ collected' = NoData
            /\ UNCHANGED data
       ELSE /\ collected' = collect_output(data, res)
            /\ data' = data_after_collect(data, res)
            /\ send_output(rec)
    /\ displayed' = "none"
    /\ UNCHANGED <<env, created, file>>

v2_runner_on_failed == \E res \in Results : RunnerEvent("v2_runner_on_failed", res, FailedRecord(data, res))

v2_runner_on_ok == \E res \in Results : RunnerEvent("v2_runner_on_ok", res, OkRecord(data, res))

v2_runner_on_unreachable ==
    \E res \in Results : RunnerEvent("v2_runner_on_unreachable", res, UnreachableRecord(data, res))

\* the host has taken the outcome of the call and is ready to issue the next callback
host_next ==
    /\ pc = "returned"
    /\ pc' = "idle"
    /\ op' = "none"
    /\ result' = NoData
    /\ collected' = NoData
    /\ raised' = "none"
    /\ displayed' = "none"
    /\ NoSend
    /\ UNCHANGED <<env, data, created, file>>

Next ==
    \/ set_options
    \/ host_next
    \/ v2_playbook_on_start
    \/ v2_playbook_on_stats
    \/ v2_runner_on_failed
    \/ v2_runner_on_ok
    \/ v2_runner_on_unreachable

Spec == Init /\ [][Next]_vars

----------------------------------------------------------------------------
(* The claims *)

RunnerOps == {"v2_runner_on_failed", "v2_runner_on_ok", "v2_runner_on_unreachable"}

\* send_output was called in the last call
Sent == msg # NoData

\* w is one JSON object on one line: no newline but the single one that ends it
OneJsonLine(w) ==
    /\ Len(w) >= 3
    /\ w[1] = "{"
    /\ w[Len(w) - 1] = "}"
    /\ w[Len(w)] = "\n"
    /\ \A i \in 1..(Len(w) - 1) : w[i] # "\n"

\* C1: if the connection attempt of set_options failed, every later send_output is a
\* no-op: it writes nothing to the socket and does not raise.
C1_FailedConnectIsNoOp ==
    (env.connect \in {"ConnectionRefusedError", "OSError"} /\ Sent)
        => (raised = "none" /\ wrote = "none" /\ written = <<>>)

\* C2: if reading the options failed with KeyError, set_options logged the error and
\* made no connection attempt, and every later send_output behaves as in the inactive
\* state: it returns without raising and writes nothing.
C2_MissingKeyIsInactive ==
    env.option = "KeyError"
        => /\ sock = "unset"
           /\ (op = "set_options" => displayed = "error" /\ raised = "none")
           /\ (Sent => raised = "none" /\ wrote = "none" /\ written = <<>>)

\* C3: every record passed to send_output carries the session identifier that
\* set_options generated.
C3_SessionConstant ==
    Sent => ("session" \in DOMAIN msg /\ msg.session = created.session)

C3_Witness ==
    /\ Sent
    /\ op = "v2_playbook_on_stats"
    /\ "playbook" \in DOMAIN msg
    /\ msg.session = Uuid(NumSessions)

C5_UnreachableRc ==
    (op = "v2_runner_on_unreachable" /\ Sent)
        => (msg.rc = -1 /\ msg.status = <<"unreachable">>)

C5_Witness ==
    /\ op = "v2_runner_on_unreachable"
    /\ Sent
    /\ collected.rc = MaxRc
    /\ "failed_modules" \in DOMAIN result.result
    /\ msg.rc = -1

\* C6: for a result with a failed_modules.setup entry the record's rc and log come from
\* that nested payload, for a result without failed_modules from the top-level result,
\* and collect_output returns a record in both cases.
C6_LogSource ==
    (result # NoData /\ created # NoData) =>
        LET top == result.result
            failed == Get(top, "failed_modules", NoData)
        IN  /\ "failed_modules" \notin DOMAIN top =>
                    /\ collected # NoData
                    /\ collected.rc = Get(top, "rc", 0)
                    /\ collected.log = LogText(top)
            /\ "setup" \in DOMAIN failed =>
                    /\ collected # NoData
                    /\ collected.rc = Get(failed.setup, "rc", 0)
                    /\ collected.log = LogText(failed.setup)

C6_Witness ==
    /\ result # NoData
    /\ collected # NoData
    /\ "failed_modules" \in DOMAIN result.result
    /\ "setup" \in DOMAIN result.result.failed_modules
    /\ "rc" \in DOMAIN result.result
    /\ collected.rc # result.result.rc
    /\ collected.log # LogText(result.result)

\* C7: the rc of the record collect_output returns is an integer: the rc of the selected
\* payload when it has one, 0 when it has none.
C7_RcInteger ==
    collected # NoData =>
        /\ collected.rc \in Int
        /\ IF "rc" \in DOMAIN LogSource(result)
           THEN collected.rc = LogSource(result).rc
           ELSE collected.rc = 0

C7_Witness ==
    /\ collected # NoData
    /\ "rc" \notin DOMAIN LogSource(result)
    /\ "rc" \in DOMAIN result.result
    /\ collected.rc = 0

\* C8 as stated: the records emitted by the per-task handlers and by
\* v2_playbook_on_stats carry no 'playbook' field.
C8_PlaybookOnlyInStart ==
    (op \in RunnerOps \cup {"v2_playbook_on_stats"} /\ Sent) => "playbook" \notin DOMAIN msg

\* C8 as amended: a record carries no 'playbook' field only while v2_playbook_on_start
\* has not been called; the run-start record and every record emitted after it carry
\* the base name of the file of the latest v2_playbook_on_start.
C8_PlaybookSinceStart ==
    Sent => IF file = NoFile
            THEN "playbook" \notin DOMAIN msg
            ELSE "playbook" \in DOMAIN msg /\ msg.playbook = Basename(file)

C8_Witness ==
    /\ op \in RunnerOps
    /\ Sent
    /\ "playbook" \in DOMAIN msg
    /\ msg.playbook = <<"db.yml">>

EventKeys(o) ==
    IF o = "v2_playbook_on_start" THEN {"task"}
    ELSE IF o = "v2_playbook_on_stats" THEN {"task", "stdout"}
    ELSE {"task", "host", "rc", "log", "status"}

\* C9 as stated: no handler adds, removes or changes a key of self.data after
\* set_options created it.
C9_SessionContextImmutable ==
    created # NoData => data = created

\* C9 as amended: self.data keeps the session and user that set_options gave it and no
\* event field (task, host, rc, log, status, stdout) ever enters it; the only key a
\* handler adds or changes is 'playbook', written by v2_playbook_on_start; every record
\* is self.data plus the fields of its own event.
C9_OnlyPlaybookAdded ==
    created # NoData =>
        /\ DOMAIN data \subseteq {"session", "user", "playbook"}
        /\ data.session = created.session
        /\ data.user = created.user
        /\ ("playbook" \in DOMAIN data) = (file # NoFile)
        /\ Sent => /\ DOMAIN msg = (DOMAIN data) \cup EventKeys(op)
                   /\ \A k \in DOMAIN data : msg[k] = data[k]

C9_Witness ==
    /\ created # NoData
    /\ op \in RunnerOps
    /\ Sent
    /\ data # created
    /\ data = Put(created, "playbook", <<"site.yml">>)

\* C10: a failed socket write raises out of the handler and the record is not written
\* again; no handler opens a connection or changes self.connected or self.sock, which
\* stay as set_options left them.
C10_WriteFailurePropagates ==
    [][ /\ wrote' \in {"sendall", "send"} =>
            (raised' = "OSError" /\ ~OneJsonLine(written') /\ msg' # NoData)
        /\ pc # "constructed" => (connected' = connected /\ sock' = sock) ]_vars

C10_Witness ==
    /\ wrote = "send"
    /\ raised = "OSError"
    /\ connected = "True"
    /\ sock = "connected"
    /\ op \in RunnerOps
====
